---- MODULE Spec2Model ----
(***************************************************************************)
(* Model of the command server: the accept loop (main.rs), the connection  *)
(* handler (handler.rs and the earlier one kept in main.rs), the command   *)
(* dispatcher form_response / process_command (commands.rs) and the shared *)
(* Metrics aggregator (types.rs).                                          *)
(***************************************************************************)
EXTENDS Integers, Sequences, FiniteSets, TLC

(* ------------------------------ bounds -------------------------------- *)
\* largest number of request nodes (a batch and all its elements) in one document
MaxNodes == 3
\* number of connections handled concurrently in SpecConc
NumConns == 2
\* number of connections the accept loop takes
MaxAccepts == 2
\* largest measured duration, in microseconds
MaxMicros == 2
\* bits of the significand of the floating-point numbers (f64 has 53)
MantissaBits == 7
\* updates per command kind in the runs of the Metrics aggregator alone
MaxUpdates == 3

(* --------------------------- JSON documents --------------------------- *)
\* serde_json::Value, one record shape per JSON type
JNull == [t |-> "null"]
JStr(s) == [t |-> "str", s |-> s]
JNum(n) == [t |-> "num", n |-> n]
JArr(a) == [t |-> "arr", a |-> a]
JObj(o) == [t |-> "obj", o |-> o]
\* bytes that are not a JSON document at all
NotJson == [t |-> "garbage"]

\* Option<T>
None == [some |-> FALSE]
Some(v) == [some |-> TRUE, v |-> v]

Uuids == {"u1", "u2"}
Commands == {"ping", "echo", "time", "calculate", "batch"}
Operations == {"add", "subtract", "multiply", "divide"}

\* json!(request): the wire form of a request, the payload field left out when None
ReqDoc(id, cmd, payload) ==
    IF payload = None
    THEN JObj([request_id |-> JStr(id), command |-> JStr(cmd)])
    ELSE JObj([request_id |-> JStr(id), command |-> JStr(cmd), payload |-> payload.v])

(* ------------------------------ numbers ------------------------------- *)
\* f64 values are fractions <<numerator, denominator>> in lowest terms with a
\* positive denominator; the arithmetic of f64 rounds every result to the
\* nearest number with a significand of MantissaBits bits, ties to even (the
\* exponent range, infinities and NaN are out of reach of the inputs used)
\* Each operation is a function applied to its operands, so that an operand is
\* evaluated once, before the operation, as the machine does.
Abs(n) == IF n < 0 THEN -n ELSE n

GcdOf[a \in Nat, b \in Nat] == IF b = 0 THEN a ELSE GcdOf[b, a % b]
Gcd(a, b) == GcdOf[a, b]

RatOf[n \in Int, d \in Int] ==
    <<((IF d < 0 THEN -1 ELSE 1) * n) \div Gcd(Abs(n), Abs(d)),
      ((IF d < 0 THEN -1 ELSE 1) * d) \div Gcd(Abs(n), Abs(d))>>
Rat(n, d) == RatOf[n, d]

FromInt(n) == <<n, 1>>
RAddOf[x \in Int \X Int, y \in Int \X Int, g \in Nat] ==
    Rat(x[1] * (y[2] \div g) + y[1] * (x[2] \div g), (x[2] \div g) * y[2])
RAdd(x, y) == RAddOf[x, y, Gcd(x[2], y[2])]
RNeg(x) == <<-x[1], x[2]>>
RSub(x, y) == RAdd(x, RNeg(y))
RMulOf[x \in Int \X Int, y \in Int \X Int] == Rat(x[1] * y[1], x[2] * y[2])
RMul(x, y) == RMulOf[x, y]
RDivOf[x \in Int \X Int, y \in Int \X Int] == Rat(x[1] * y[2], x[2] * y[1])
RDiv(x, y) == RDivOf[x, y]
RLe(x, y) == x[1] * y[2] <= y[1] * x[2]
RMin(x, y) == IF RLe(x, y) THEN x ELSE y
RMax(x, y) == IF RLe(x, y) THEN y ELSE x
RZero == FromInt(0)

Pow2(n) == 2 ^ n

\* the integer nearest to n / d, the even one of two equally near
NearestEvenOf[q \in Nat, r \in Nat, d \in Nat] ==
    IF 2 * r < d THEN q
    ELSE IF 2 * r > d THEN q + 1
    ELSE IF q % 2 = 0 THEN q ELSE q + 1
NearestEven(n, d) == NearestEvenOf[n \div d, n % d, d]

\* the exponent of the largest power of two that divides d > 0
TwoAdicOf[d \in Nat] == CHOOSE k \in 0..30 : d % Pow2(k) = 0 /\ (d \div Pow2(k)) % 2 = 1
TwoAdic(d) == TwoAdicOf[d]

\* whether m is a significand of MantissaBits bits
IsSignificand(m) == m >= Pow2(MantissaBits - 1) /\ m < Pow2(MantissaBits)

\* m / 2^x in lowest terms, t the exponent of the power of two in m
ScaledDown[m \in Nat, x \in Nat, t \in Nat] ==
    IF t <= x THEN <<m \div Pow2(t), Pow2(x - t)>> ELSE <<m \div Pow2(x), 1>>

\* n / (o * 2^k) >= 2^(MantissaBits - 1), rounded at the bit of weight 2^e
RoundLarge[n \in Nat, o \in Nat, k \in Nat, e \in Nat] ==
    Rat(NearestEven(n, o * Pow2(e)) * Pow2(e), Pow2(k))

\* n / (o * 2^k) < 2^(MantissaBits - 1), rounded at the bit of weight 2^(-j)
RoundSmall[n \in Nat, o \in Nat, k \in Nat, j \in Nat] ==
    ScaledDown[NearestEven(n * Pow2(j), o), j + k,
               TwoAdic(NearestEven(n * Pow2(j), o))]

\* n / (o * 2^k) > 0, o odd, rounded to a significand of MantissaBits bits
RoundOdd[n \in Nat, o \in Nat, k \in Nat] ==
    IF n \div o >= Pow2(MantissaBits - 1)
    THEN RoundLarge[n, o, k,
                    CHOOSE i \in 0..30 : IsSignificand((n \div o) \div Pow2(i))]
    ELSE RoundSmall[n, o, k,
                    CHOOSE i \in 1..30 : IsSignificand((n * Pow2(i)) \div o)]

\* n / d > 0 rounded to a significand of MantissaBits bits
RoundPos(n, d) == RoundOdd[n, d \div Pow2(TwoAdic(d)), TwoAdic(d)]

\* the f64 nearest to the fraction x
FRoundOf[x \in Int \X Int] ==
    IF x[1] = 0 THEN x
    ELSE IF x[1] < 0 THEN RNeg(RoundPos(-x[1], x[2]))
    ELSE RoundPos(x[1], x[2])
FRound(x) == FRoundOf[x]

\* the operators +, -, *, / of f64
FAdd(x, y) == FRound(RAdd(x, y))
FSub(x, y) == FRound(RSub(x, y))
FMul(x, y) == FRound(RMul(x, y))
FDiv(x, y) == FRound(RDiv(x, y))

CalcDoc(op, a, b) ==
    JObj([operation |-> JStr(op), a |-> JNum(FromInt(a)), b |-> JNum(FromInt(b))])

(* ------------------------------ decoding ------------------------------ *)
Fail(msg) == [ok |-> FALSE, err |-> msg]
Done(v) == [ok |-> TRUE, v |-> v]

\* serde_json::from_value::<Request>: request_id must be a UUID, command one of
\* the Command tags, payload is Option<Value> (absent or null gives None)
DecodeRequest(j) ==
    IF j.t # "obj" THEN Fail("invalid type: expected struct Request")
    ELSE IF "request_id" \notin DOMAIN j.o THEN Fail("missing field request_id")
    ELSE IF j.o.request_id.t # "str" \/ j.o.request_id.s \notin Uuids
         THEN Fail("invalid value: expected UUID")
    ELSE IF "command" \notin DOMAIN j.o THEN Fail("missing field command")
    ELSE IF j.o.command.t # "str" \/ j.o.command.s \notin Commands
         THEN Fail("unknown variant")
    ELSE Done([request_id |-> j.o.request_id.s,
               command |-> j.o.command.s,
               payload |-> IF "payload" \in DOMAIN j.o /\ j.o.payload # JNull
                           THEN Some(j.o.payload) ELSE None])

\* the elements are decoded one by one up to the first that is no Request, and
\* the requests decoded so far are kept
RECURSIVE DecodeItemsPrefix(_)
DecodeItemsPrefix(a) ==
    IF a = <<>> THEN Done(<<>>)
    ELSE LET h == DecodeRequest(Head(a))
         IN  IF ~h.ok THEN Done(<<>>)
             ELSE Done(<<h.v>> \o DecodeItemsPrefix(Tail(a)).v)

\* serde_json::from_value::<Vec<Request>>: the whole array is decoded before any
\* item runs; the first element that is no Request fails the whole decode
RECURSIVE DecodeItems(_)
DecodeItems(a) ==
    IF a = <<>> THEN Done(<<>>)
    ELSE LET h == DecodeRequest(Head(a))
         IN  IF ~h.ok THEN h
             ELSE LET r == DecodeItems(Tail(a))
                  IN  IF ~r.ok THEN r ELSE Done(<<h.v>> \o r.v)

DecodeBatch(j) ==
    IF j.t # "arr" THEN Fail("invalid type: expected a sequence")
    ELSE DecodeItems(j.a)

\* serde_json::from_value::<CalculationPayload>: an object with the fields
\* operation (one of the Operation tags), a and b (numbers)
DecodeCalculationPayload(j) ==
    IF j.t # "obj" THEN Fail("invalid type: expected struct CalculationPayload")
    ELSE IF "operation" \notin DOMAIN j.o THEN Fail("missing field operation")
    ELSE IF j.o.operation.t # "str" \/ j.o.operation.s \notin Operations
         THEN Fail("unknown variant")
    ELSE IF "a" \notin DOMAIN j.o THEN Fail("missing field a")
    ELSE IF j.o.a.t # "num" THEN Fail("invalid type: expected f64")
    ELSE IF "b" \notin DOMAIN j.o THEN Fail("missing field b")
    ELSE IF j.o.b.t # "num" THEN Fail("invalid type: expected f64")
    ELSE Done([operation |-> j.o.operation.s, a |-> j.o.a.n, b |-> j.o.b.n])

(* ------------------------------ responses ----------------------------- *)
OkResponse(id, v) == [status |-> "ok", request_id |-> id, response |-> v]
ErrorResponse(optid, msg) == [status |-> "error", request_id |-> optid, error |-> msg]

\* Serialize for Response (untagged): the own fields of the variant
ResponseJson(r) ==
    IF r.status = "ok"
    THEN JObj([request_id |-> JStr(r.request_id), status |-> JStr("ok"),
               response |-> r.response])
    ELSE JObj([request_id |-> IF r.request_id.some THEN JStr(r.request_id.v) ELSE JNull,
               status |-> JStr("error"), error |-> JStr(r.error)])

\* json!(result) for result: Vec<Response>
ResultJson(result) == JArr([i \in 1..Len(result) |-> ResponseJson(result[i])])

(* ------------------------------ commands ------------------------------ *)
\* process_command_calculate without the test of the divisor
CalculateUnchecked(req) ==
    IF ~req.payload.some THEN Fail("missing payload field")
    ELSE LET p == DecodeCalculationPayload(req.payload.v)
         IN  IF ~p.ok THEN p
             ELSE LET result ==
                          CASE p.v.operation = "add" -> FAdd(p.v.a, p.v.b)
                            [] p.v.operation = "subtract" -> FSub(p.v.a, p.v.b)
                            [] p.v.operation = "multiply" -> FMul(p.v.a, p.v.b)
                            [] p.v.operation = "divide" ->
                                  IF p.v.b = RZero THEN RZero ELSE FDiv(p.v.a, p.v.b)
                  IN  Done(JObj([result |-> JNum(result)]))

\* a missing payload is taken as the default payload instead of refused
CalculateDefaulted(req) ==
    IF ~req.payload.some THEN Done(JObj([result |-> JNum(RZero)]))
    ELSE LET p == DecodeCalculationPayload(req.payload.v)
         IN  IF ~p.ok THEN p
             ELSE IF p.v.operation = "divide" /\ p.v.b = RZero
                  THEN Fail("division by zero")
             ELSE LET result ==
                          CASE p.v.operation = "add" -> FAdd(p.v.a, p.v.b)
                            [] p.v.operation = "subtract" -> FSub(p.v.a, p.v.b)
                            [] p.v.operation = "multiply" -> FMul(p.v.a, p.v.b)
                            [] p.v.operation = "divide" -> FDiv(p.v.a, p.v.b)
                  IN  Done(JObj([result |-> JNum(result)]))

\* process_command_calculate
ProcessCommandCalculate(req) ==
    IF ~req.payload.some THEN Fail("missing payload field")
    ELSE LET p == DecodeCalculationPayload(req.payload.v)
         IN  IF ~p.ok THEN p
             ELSE IF p.v.operation = "divide" /\ p.v.b = RZero
                  THEN Fail("division by zero")
             ELSE LET result ==
                          CASE p.v.operation = "add" -> FAdd(p.v.a, p.v.b)
                            [] p.v.operation = "subtract" -> FSub(p.v.a, p.v.b)
                            [] p.v.operation = "multiply" -> FMul(p.v.a, p.v.b)
                            [] p.v.operation = "divide" -> FDiv(p.v.a, p.v.b)
                  IN  Done(JObj([result |-> JNum(result)]))

\* Echo answers with its payload wrapped in an object
ProcessLeafEchoWrapped(req, now) ==
    CASE req.command = "ping" -> Done(JStr("pong"))
      [] req.command = "echo" ->
            Done(JObj([echo |-> IF req.payload.some THEN req.payload.v ELSE JNull]))
      [] req.command = "time" -> Done(JObj([time |-> JStr(now)]))
      [] req.command = "calculate" -> ProcessCommandCalculate(req)

\* Ping answers with the payload it was sent, as Echo does
ProcessLeafPingEchoes(req, now) ==
    CASE req.command \in {"ping", "echo"} ->
            Done(IF req.payload.some THEN req.payload.v ELSE JNull)
      [] req.command = "time" -> Done(JObj([time |-> JStr(now)]))
      [] req.command = "calculate" -> ProcessCommandCalculate(req)

\* process_command for the commands that finish without recursion; now is the
\* value of Utc::now() formatted to seconds
ProcessLeaf(req, now) ==
    CASE req.command = "ping" -> Done(JStr("pong"))
      [] req.command = "echo" ->
            Done(IF req.payload.some THEN req.payload.v ELSE JNull)
      [] req.command = "time" -> Done(JObj([time |-> JStr(now)]))
      [] req.command = "calculate" -> ProcessCommandCalculate(req)

\* the error response is formed without the request id
ToResponseNoId(req, res) ==
    IF res.ok THEN OkResponse(req.request_id, res.v)
    ELSE ErrorResponse(None, res.err)

\* the match at the end of the call of process_command in form_response
ToResponse(req, res) ==
    IF res.ok THEN OkResponse(req.request_id, res.v)
    ELSE ErrorResponse(Some(req.request_id), res.err)

(* ------------------------------ metrics ------------------------------- *)
\* HashMap<CommandKind, _> as a function to Option: None is an absent key
EmptyMap == [k \in Commands |-> None]

\* Metrics::default()
MetricsDefault ==
    [command_counts |-> EmptyMap, processing_time_min |-> EmptyMap,
     processing_time_max |-> EmptyMap, processing_time_avg |-> EmptyMap]

\* command_counts.entry(kind).or_default(): the value the increment reads
CountOrDefault(m, kind) ==
    IF m.command_counts[kind].some THEN m.command_counts[kind].v ELSE 0

\* the entry is set to one instead of incremented
IncrementLost(old) == 1

\* *entry += 1
Increment(old) == old + 1

\* the call is counted and its duration dropped
MetricsUpdatedCountOnly(m, kind, old, d) ==
    [m EXCEPT !.command_counts[kind] = Some(Increment(old))]

\* the four statements of Metrics::update. The count: *entry(kind).or_default()
\* += 1, old being the count the increment has read
UpdateCount(m, kind, old) ==
    [m EXCEPT !.command_counts[kind] = Some(Increment(old))]

\* processing_time_min.entry(kind).and_modify(min).or_insert(d)
UpdateMin(m, kind, d) ==
    [m EXCEPT !.processing_time_min[kind] =
                  IF @.some THEN Some(RMin(@.v, d)) ELSE Some(d)]

\* processing_time_max.entry(kind).and_modify(max).or_insert(d)
UpdateMax(m, kind, d) ==
    [m EXCEPT !.processing_time_max[kind] =
                  IF @.some THEN Some(RMax(@.v, d)) ELSE Some(d)]

\* the mean is recomputed as if every update were the second one
UpdateAvgUnweighted(m, kind, d) ==
    [m EXCEPT !.processing_time_avg[kind] =
                  IF @.some THEN Some(FDiv(FAdd(@.v, d), FromInt(2))) ELSE Some(d)]

\* the count is read back and the mean recomputed from it:
\* (old_avg * (count - 1) + d) / count, or d for a new key
UpdateAvg(m, kind, d) ==
    LET count == m.command_counts[kind].v
    IN  [m EXCEPT !.processing_time_avg[kind] =
                      IF @.some
                      THEN Some(FDiv(FAdd(FMul(@.v, FromInt(count - 1)), d),
                                     FromInt(count)))
                      ELSE Some(d)]

\* Metrics::update as a whole
MetricsUpdated(m, kind, old, d) ==
    UpdateAvg(UpdateMax(UpdateMin(UpdateCount(m, kind, old), kind, d), kind, d), kind, d)

\* s.elapsed().as_micros() as f64 / 1000.0
DurationMs(micros) == FDiv(FromInt(micros), FromInt(1000))

(* --------------------------- input documents -------------------------- *)
\* command and payload of the requests that hold no nested request
LeafBodies ==
    {[command |-> "ping", payload |-> None],
     [command |-> "echo", payload |-> Some(JStr("x"))],
     [command |-> "echo", payload |-> None],
     [command |-> "echo", payload |-> Some(JNull)],
     [command |-> "echo", payload |-> Some(JObj(<<>>))],
     [command |-> "echo", payload |-> Some(JArr(<<>>))],
     [command |-> "echo",
      payload |-> Some(JObj([k |-> JArr(<<JNum(FromInt(3)), JNull, JStr("")>>)]))],
     [command |-> "time", payload |-> None],
     [command |-> "calculate", payload |-> None],
     [command |-> "calculate", payload |-> Some(JStr("x"))],
     [command |-> "calculate", payload |-> Some(CalcDoc("power", 1, 2))],
     [command |-> "calculate", payload |-> Some(CalcDoc("add", 1, 2))],
     [command |-> "calculate", payload |-> Some(JNull)],
     [command |-> "calculate", payload |-> Some(JArr(<<JStr("only"), JStr("objects")>>))],
     [command |-> "calculate",
      payload |-> Some(JObj([operation |-> JStr("add"), a |-> JNum(FromInt(1))]))],
     [command |-> "calculate",
      payload |-> Some(JObj([operation |-> JStr("add"), b |-> JNum(FromInt(2))]))],
     [command |-> "calculate",
      payload |-> Some(JObj([a |-> JNum(FromInt(1)), b |-> JNum(FromInt(2))]))],
     [command |-> "batch", payload |-> None],
     [command |-> "batch", payload |-> Some(JStr("x"))]}
    \cup {[command |-> "calculate", payload |-> Some(CalcDoc("divide", a, b))] :
             a \in {0, 3}, b \in {0, 2}}

\* the bodies batch elements are drawn from
ItemBodies ==
    {[command |-> "ping", payload |-> None],
     [command |-> "echo", payload |-> Some(JStr("x"))],
     [command |-> "calculate", payload |-> Some(CalcDoc("divide", 3, 0))],
     [command |-> "calculate", payload |-> Some(CalcDoc("divide", 3, 2))],
     [command |-> "batch", payload |-> None]}

\* JSON values that are no Request: no object, a request_id that is no UUID, an
\* unknown command tag
Malformed ==
    {JNull,
     JObj([request_id |-> JStr("not-a-uuid"), command |-> JStr("ping")]),
     JObj([request_id |-> JStr("u1"), command |-> JStr("nope")])}

LeafDocs(bodies) == {ReqDoc(id, b.command, b.payload) : id \in Uuids, b \in bodies}

\* batch elements of exactly n request nodes, and sequences of them
RECURSIVE Elems(_), Forests(_)
Elems(n) ==
    (IF n = 1 THEN LeafDocs(ItemBodies) \cup Malformed ELSE {})
    \cup {ReqDoc(id, "batch", Some(JArr(f))) : id \in Uuids, f \in Forests(n - 1)}

Forests(n) ==
    IF n = 0 THEN {<<>>}
    ELSE UNION {{<<e>> \o f : e \in Elems(k), f \in Forests(n - k)} : k \in 1..n}

\* what a client may send: bytes that are no JSON, JSON that is no Request, a
\* request of at most MaxNodes nodes
Docs ==
    {NotJson, JObj([request_id |-> JStr("u1"), command |-> JStr("PING")])}
    \cup Malformed \cup LeafDocs(LeafBodies)
    \cup UNION {Elems(n) : n \in 1..MaxNodes}

\* the documents of the concurrent runs
ConcDocs ==
    {NotJson,
     ReqDoc("u1", "ping", None),
     ReqDoc("u1", "batch",
            Some(JArr(<<ReqDoc("u2", "calculate", Some(CalcDoc("divide", 3, 0)))>>))),
     ReqDoc("u2", "batch", Some(JArr(<<ReqDoc("u1", "ping", None),
                                      ReqDoc("u2", "batch", None)>>)))}

Times == {"T1", "T2"}

(* ------------------------------- state -------------------------------- *)
VARIABLES
    pc,        \* per connection: where its task stands; at the end "closed"
               \* (returned), "failed" (read or write error) or "panicked"
    doc,       \* per connection: the bytes the client sent
    stack,     \* per connection: the active form_response calls, outermost first
    resp,      \* per connection: the response handed to send_response
    written,   \* per connection: the documents written to the stream
    metrics,   \* the one Metrics instance behind the Arc<Mutex<_>>
    lock,      \* the connection holding the Mutex, 0 when it is free
    accepted,  \* connections taken by the accept loop
    calls,     \* per command: form_response calls begun
    returned   \* per command: form_response calls that returned their response

vars == <<pc, doc, stack, resp, written, metrics, lock, accepted, calls, returned>>

Conns == 1..NumConns

\* a form_response call: its request, its position, the decoded batch still to
\* run, the responses collected, its response once known, the measured duration
\* and the count read by the increment
Frame(req) ==
    [req |-> req, at |-> "enter", items |-> <<>>, result |-> <<>>,
     response |-> None, dur |-> RZero, old |-> 0]

Top(c) == stack[c][Len(stack[c])]
SetTop(c, f) == [stack EXCEPT ![c] = [@ EXCEPT ![Len(@)] = f]]
Running(c) == pc[c] = "dispatch" /\ stack[c] # <<>>

Init ==
    /\ pc = [c \in Conns |-> "idle"]
    /\ doc = [c \in Conns |-> NotJson]
    /\ stack = [c \in Conns |-> <<>>]
    /\ resp = [c \in Conns |-> None]
    /\ written = [c \in Conns |-> <<>>]
    /\ metrics = MetricsDefault
    /\ lock = 0
    /\ accepted = 0
    /\ calls = [k \in Commands |-> 0]
    /\ returned = [k \in Commands |-> 0]

(* --------------------------- the I/O layer ---------------------------- *)
\* main: listener.accept() and tokio::spawn of handle_connection; the client
\* sends one of the documents D
Accept(c, D) ==
    /\ pc[c] = "idle"
    /\ accepted < MaxAccepts
    /\ \E d \in D : doc' = [doc EXCEPT ![c] = d]
    /\ pc' = [pc EXCEPT ![c] = "accepted"]
    /\ accepted' = accepted + 1
    /\ UNCHANGED <<stack, resp, written, metrics, lock, calls, returned>>

\* the spawned task is over (returned or aborted) and its stream dropped: the
\* slot serves the next connection
TaskEnd(c) ==
    /\ pc[c] \in {"closed", "failed", "panicked"}
    /\ accepted < MaxAccepts
    /\ pc' = [pc EXCEPT ![c] = "idle"]
    /\ doc' = [doc EXCEPT ![c] = NotJson]
    /\ stack' = [stack EXCEPT ![c] = <<>>]
    /\ resp' = [resp EXCEPT ![c] = None]
    /\ written' = [written EXCEPT ![c] = <<>>]
    /\ UNCHANGED <<metrics, lock, accepted, calls, returned>>

\* handle_connection: read_to_end fails, the error is logged and the task returns
ReadFail(c) ==
    /\ pc[c] = "accepted"
    /\ pc' = [pc EXCEPT ![c] = "failed"]
    /\ UNCHANGED <<doc, stack, resp, written, metrics, lock, accepted, calls, returned>>

\* handle_connection: the bytes are read and parsed as a JSON value
ParseJson(c) ==
    /\ pc[c] = "accepted"
    /\ IF doc[c] = NotJson
       THEN /\ resp' = [resp EXCEPT
                          ![c] = Some(ErrorResponse(None, "request is not a valid JSON"))]
            /\ pc' = [pc EXCEPT ![c] = "send"]
       ELSE /\ pc' = [pc EXCEPT ![c] = "decode"]
            /\ UNCHANGED resp
    /\ UNCHANGED <<doc, stack, written, metrics, lock, accepted, calls, returned>>

\* handle_connection: the JSON value is decoded into a Request and dispatched
DecodeStep(c) ==
    /\ pc[c] = "decode"
    /\ LET r == DecodeRequest(doc[c])
       IN  IF r.ok
           THEN /\ stack' = [stack EXCEPT ![c] = <<Frame(r.v)>>]
                /\ pc' = [pc EXCEPT ![c] = "dispatch"]
                /\ UNCHANGED resp
           ELSE /\ resp' = [resp EXCEPT ![c] = Some(ErrorResponse(None, r.err))]
                /\ pc' = [pc EXCEPT ![c] = "send"]
                /\ UNCHANGED stack
    /\ UNCHANGED <<doc, written, metrics, lock, accepted, calls, returned>>

\* send_response: the response is serialized (serde_json::to_vec has no failing
\* step for these types) and written to the stream
SendResponse(c) ==
    /\ pc[c] = "send"
    /\ written' = [written EXCEPT ![c] = Append(@, ResponseJson(resp[c].v))]
    /\ pc' = [pc EXCEPT ![c] = "closed"]
    /\ UNCHANGED <<doc, stack, resp, metrics, lock, accepted, calls, returned>>

\* send_response: write_all fails, the error is logged, nothing reaches the client
SendFail(c) ==
    /\ pc[c] = "send"
    /\ pc' = [pc EXCEPT ![c] = "failed"]
    /\ UNCHANGED <<doc, stack, resp, written, metrics, lock, accepted, calls, returned>>

(* ------------------- the handler kept in main.rs ---------------------- *)
\* str::to_lowercase on the command tags the documents use
ToLowercase(s) == IF s = "PING" THEN "ping" ELSE s

\* serde_json::from_slice::<Request> with request_id and command plain strings
MainDecode(j) ==
    IF j.t # "obj" THEN Fail("invalid type: expected struct Request")
    ELSE IF "request_id" \notin DOMAIN j.o THEN Fail("missing field request_id")
    ELSE IF j.o.request_id.t # "str" THEN Fail("invalid type: expected a string")
    ELSE IF "command" \notin DOMAIN j.o THEN Fail("missing field command")
    ELSE IF j.o.command.t # "str" THEN Fail("invalid type: expected a string")
    ELSE Done([request_id |-> j.o.request_id.s,
               command |-> j.o.command.s,
               payload |-> IF "payload" \in DOMAIN j.o /\ j.o.payload # JNull
                           THEN Some(j.o.payload) ELSE None])

\* the match on the command in the handle_connection of main.rs, with its
\* process_command_calculate
MainCommand(req, now) ==
    LET cmd == ToLowercase(req.command)
    IN  IF cmd \in {"ping", "echo", "time"}
        THEN ProcessLeaf([req EXCEPT !.command = cmd], now)
        ELSE IF cmd = "calculate"
        THEN IF req.payload.some THEN ProcessCommandCalculate(req)
             ELSE Fail("payload not included")
        ELSE Fail("unknown command")

\* handle_connection of main.rs: the decode result is unwrapped, so bytes that
\* are no Request abort the task; otherwise the command is run inline
MainHandleConnection(c) ==
    /\ pc[c] = "accepted"
    /\ LET r == IF doc[c] = NotJson THEN Fail("expected value") ELSE MainDecode(doc[c])
       IN  IF r.ok
           THEN /\ \E now \in Times :
                     resp' = [resp EXCEPT
                                 ![c] = Some(ToResponse(r.v, MainCommand(r.v, now)))]
                /\ pc' = [pc EXCEPT ![c] = "send"]
           ELSE /\ pc' = [pc EXCEPT ![c] = "panicked"]
                /\ UNCHANGED resp
    /\ UNCHANGED <<doc, stack, written, metrics, lock, accepted, calls, returned>>

(* --------------------------- the dispatcher --------------------------- *)
\* no mutual exclusion: the lock is granted whoever holds it
CanLockAlways(c) == TRUE

\* whether metrics.lock() returns: the Mutex is free
CanLock(c) == lock = 0

\* the response of a command carries the count its kind has in the Metrics
FormResponseLeafCounted(c) ==
    /\ Running(c)
    /\ Top(c).at = "enter"
    /\ Top(c).req.command # "batch"
    /\ stack' = SetTop(c, [Top(c) EXCEPT
                  !.response = Some(OkResponse(Top(c).req.request_id,
                                    JNum(FromInt(CountOrDefault(metrics,
                                                                Top(c).req.command))))),
                  !.at = "metrics"])
    /\ calls' = [calls EXCEPT ![Top(c).req.command] = @ + 1]
    /\ UNCHANGED <<pc, doc, resp, written, metrics, lock, accepted, returned>>

\* the response is returned without the metrics block having run
FormResponseLeafUntimed(c) ==
    /\ Running(c)
    /\ Top(c).at = "enter"
    /\ Top(c).req.command # "batch"
    /\ \E now \in (IF Top(c).req.command = "time" THEN Times ELSE {"T1"}) :
          stack' = SetTop(c, [Top(c) EXCEPT
                        !.response = Some(ToResponse(Top(c).req,
                                                     ProcessLeaf(Top(c).req, now))),
                        !.at = "return"])
    /\ calls' = [calls EXCEPT ![Top(c).req.command] = @ + 1]
    /\ UNCHANGED <<pc, doc, resp, written, metrics, lock, accepted, returned>>

\* form_response for a command other than Batch: the clock is started, the
\* command is processed and the response formed
FormResponseLeaf(c) ==
    /\ Running(c)
    /\ Top(c).at = "enter"
    /\ Top(c).req.command # "batch"
    /\ \E now \in (IF Top(c).req.command = "time" THEN Times ELSE {"T1"}) :
          stack' = SetTop(c, [Top(c) EXCEPT
                        !.response = Some(ToResponse(Top(c).req,
                                                     ProcessLeaf(Top(c).req, now))),
                        !.at = "metrics"])
    /\ calls' = [calls EXCEPT ![Top(c).req.command] = @ + 1]
    /\ UNCHANGED <<pc, doc, resp, written, metrics, lock, accepted, returned>>

\* form_response for Batch, up to the loop: no clock; the payload is unwrapped
\* (a missing payload aborts the task) and decoded as a whole
FormResponseBatch(c) ==
    /\ Running(c)
    /\ Top(c).at = "enter"
    /\ Top(c).req.command = "batch"
    /\ calls' = [calls EXCEPT !["batch"] = @ + 1]
    /\ IF ~Top(c).req.payload.some
       THEN /\ pc' = [pc EXCEPT ![c] = "panicked"]
            /\ UNCHANGED stack
       ELSE /\ LET b == DecodeBatch(Top(c).req.payload.v)
               IN  stack' = SetTop(c,
                       IF b.ok
                       THEN [Top(c) EXCEPT !.items = b.v, !.at = "loop"]
                       ELSE [Top(c) EXCEPT
                                !.response = Some(ToResponse(Top(c).req, b)),
                                !.at = "return"])
            /\ UNCHANGED pc
    /\ UNCHANGED <<doc, resp, written, metrics, lock, accepted, returned>>

\* the batch loop: form_response is called on the next item
BatchNext(c) ==
    /\ Running(c)
    /\ Top(c).at = "loop"
    /\ Top(c).items # <<>>
    /\ stack' = [stack EXCEPT
                    ![c] = Append([@ EXCEPT ![Len(@)].items = Tail(Top(c).items)],
                                  Frame(Head(Top(c).items)))]
    /\ UNCHANGED <<pc, doc, resp, written, metrics, lock, accepted, calls, returned>>

\* the batch loop is over: Ok(json!(result))
BatchDone(c) ==
    /\ Running(c)
    /\ Top(c).at = "loop"
    /\ Top(c).items = <<>>
    /\ stack' = SetTop(c, [Top(c) EXCEPT
                    !.response = Some(ToResponse(Top(c).req,
                                                 Done(ResultJson(Top(c).result)))),
                    !.at = "return"])
    /\ UNCHANGED <<pc, doc, resp, written, metrics, lock, accepted, calls, returned>>

\* the duration is taken, the Mutex locked and the count entry looked up. The
\* unwrap of lock() aborts only on a poisoned Mutex, and no step between lock
\* and drop of the guard can abort, so the Mutex is never poisoned.
MetricsLock(c) ==
    /\ Running(c)
    /\ Top(c).at = "metrics"
    /\ CanLock(c)
    /\ lock' = c
    /\ \E micros \in 1..MaxMicros :
          stack' = SetTop(c, [Top(c) EXCEPT
                        !.dur = DurationMs(micros),
                        !.old = CountOrDefault(metrics, Top(c).req.command),
                        !.at = "locked"])
    /\ UNCHANGED <<pc, doc, resp, written, metrics, accepted, calls, returned>>

\* guard.update(&command, duration)
MetricsUpdate(c) ==
    /\ Running(c)
    /\ Top(c).at = "locked"
    /\ metrics' = MetricsUpdated(metrics, Top(c).req.command, Top(c).old, Top(c).dur)
    /\ stack' = SetTop(c, [Top(c) EXCEPT !.at = "updated"])
    /\ UNCHANGED <<pc, doc, resp, written, lock, accepted, calls, returned>>

\* the count is read back and the guard kept: the Mutex stays locked
MetricsUnlockKept(c) ==
    /\ Running(c)
    /\ Top(c).at = "updated"
    /\ stack' = SetTop(c, [Top(c) EXCEPT !.at = "return"])
    /\ UNCHANGED <<pc, doc, resp, written, metrics, lock, accepted, calls, returned>>

\* the count is read back (unwrap of the entry just written) and the guard dropped
MetricsUnlock(c) ==
    /\ Running(c)
    /\ Top(c).at = "updated"
    /\ IF metrics.command_counts[Top(c).req.command].some
       THEN /\ stack' = SetTop(c, [Top(c) EXCEPT !.at = "return"])
            /\ UNCHANGED pc
       ELSE /\ pc' = [pc EXCEPT ![c] = "panicked"]
            /\ UNCHANGED stack
    /\ lock' = 0
    /\ UNCHANGED <<doc, resp, written, metrics, accepted, calls, returned>>

\* the response is put in front of the earlier ones
PushFront(result, r) == <<r>> \o result

\* result.push(response)
PushResult(result, r) == Append(result, r)

\* form_response returns its response: to the batch loop that called it, which
\* pushes it on result, or to handle_connection, which sends it
FormResponseReturn(c) ==
    /\ Running(c)
    /\ Top(c).at = "return"
    /\ returned' = [returned EXCEPT ![Top(c).req.command] = @ + 1]
    /\ IF Len(stack[c]) > 1
       THEN /\ LET n == Len(stack[c]) - 1
                    caller == stack[c][n]
               IN  stack' = [stack EXCEPT
                       ![c] = [SubSeq(stack[c], 1, n) EXCEPT
                                  ![n] = [caller EXCEPT
                                             !.result = PushResult(caller.result,
                                                                   Top(c).response.v)]]]
            /\ UNCHANGED <<pc, resp>>
       ELSE /\ stack' = [stack EXCEPT ![c] = <<>>]
            /\ resp' = [resp EXCEPT ![c] = Top(c).response]
            /\ pc' = [pc EXCEPT ![c] = "send"]
    /\ UNCHANGED <<doc, written, metrics, lock, accepted, calls>>

(* --------------------------- specifications --------------------------- *)
Step(c) ==
    \/ ReadFail(c)
    \/ ParseJson(c)
    \/ DecodeStep(c)
    \/ MainHandleConnection(c)
    \/ FormResponseLeaf(c)
    \/ FormResponseBatch(c)
    \/ BatchNext(c)
    \/ BatchDone(c)
    \/ MetricsLock(c)
    \/ MetricsUpdate(c)
    \/ MetricsUnlock(c)
    \/ FormResponseReturn(c)
    \/ SendResponse(c)
    \/ SendFail(c)

\* one connection, any document
Next == Accept(1, Docs) \/ Step(1)

Spec == Init /\ [][Next]_vars

\* NumConns connections served concurrently
NextConc == \E c \in Conns : Accept(c, ConcDocs) \/ TaskEnd(c) \/ Step(c)

SpecConc == Init /\ [][NextConc]_vars

\* the durations, in microseconds, fed to the Metrics aggregator run alone
SampleMicros == {1, 3}

\* one form_response call of kind k seen from the Metrics: the duration is
\* taken, the Mutex locked, update applied and the guard dropped
Record(k) ==
    /\ lock = 0
    /\ CountOrDefault(metrics, k) < MaxUpdates
    /\ \E micros \in SampleMicros :
          metrics' = MetricsUpdated(metrics, k, CountOrDefault(metrics, k),
                                    DurationMs(micros))
    /\ calls' = [calls EXCEPT ![k] = @ + 1]
    /\ returned' = [returned EXCEPT ![k] = @ + 1]
    /\ UNCHANGED <<pc, doc, stack, resp, written, lock, accepted>>

\* the Metrics aggregator alone, fed any sequence of updates
NextMetrics == \E k \in Commands \ {"batch"} : Record(k)

SpecMetrics == Init /\ [][NextMetrics]_vars

\* a form_response call of kind k on task c has formed its response and comes
\* to its metrics block; the frames of the calls the task made before are kept
\* below it as the record of what they measured
CallReachesMetrics(c, k) ==
    /\ pc[c] \in {"idle", "dispatch"}
    /\ IF stack[c] = <<>> THEN TRUE ELSE Top(c).at = "return"
    /\ accepted < MaxUpdates
    /\ accepted' = accepted + 1
    /\ pc' = [pc EXCEPT ![c] = "dispatch"]
    /\ stack' = [stack EXCEPT
                    ![c] = Append(@, [Frame([request_id |-> "u1", command |-> k,
                                             payload |-> None])
                                         EXCEPT !.at = "metrics"])]
    /\ calls' = [calls EXCEPT ![k] = @ + 1]
    /\ UNCHANGED <<doc, resp, written, metrics, lock, returned>>

\* Metrics::update, first statement: the count entry is incremented
CountStep(c) ==
    /\ Running(c)
    /\ Top(c).at = "locked"
    /\ metrics' = UpdateCount(metrics, Top(c).req.command, Top(c).old)
    /\ stack' = SetTop(c, [Top(c) EXCEPT !.at = "counted"])
    /\ UNCHANGED <<pc, doc, resp, written, lock, accepted, calls, returned>>

\* Metrics::update, second statement: the minimum
MinStep(c) ==
    /\ Running(c)
    /\ Top(c).at = "counted"
    /\ metrics' = UpdateMin(metrics, Top(c).req.command, Top(c).dur)
    /\ stack' = SetTop(c, [Top(c) EXCEPT !.at = "minned"])
    /\ UNCHANGED <<pc, doc, resp, written, lock, accepted, calls, returned>>

\* Metrics::update, third statement: the maximum
MaxStep(c) ==
    /\ Running(c)
    /\ Top(c).at = "minned"
    /\ metrics' = UpdateMax(metrics, Top(c).req.command, Top(c).dur)
    /\ stack' = SetTop(c, [Top(c) EXCEPT !.at = "maxed"])
    /\ UNCHANGED <<pc, doc, resp, written, lock, accepted, calls, returned>>

\* Metrics::update, last statement: the count is read back and the mean set
AvgStep(c) ==
    /\ Running(c)
    /\ Top(c).at = "maxed"
    /\ metrics' = UpdateAvg(metrics, Top(c).req.command, Top(c).dur)
    /\ stack' = SetTop(c, [Top(c) EXCEPT !.at = "updated"])
    /\ UNCHANGED <<pc, doc, resp, written, lock, accepted, calls, returned>>

\* the kinds of the calls made in the runs of the metrics block
UpdateKinds == {"ping", "calculate"}

\* the metrics blocks of concurrent form_response calls, Metrics::update run
\* statement by statement
NextUpdate ==
    \E c \in Conns :
        \/ \E k \in UpdateKinds : CallReachesMetrics(c, k)
        \/ MetricsLock(c)
        \/ CountStep(c)
        \/ MinStep(c)
        \/ MaxStep(c)
        \/ AvgStep(c)
        \/ MetricsUnlock(c)

SpecUpdate == Init /\ [][NextUpdate]_vars

\* the document of the runs that contend for the Mutex: a batch whose item is a
\* batch of one command, so that the timed call is nested two levels deep
LockDocs ==
    {ReqDoc("u1", "batch",
            Some(JArr(<<ReqDoc("u2", "batch",
                               Some(JArr(<<ReqDoc("u1", "ping", None)>>)))>>)))}

\* NumConns connections served concurrently, each task scheduled again and
\* again as long as it can take a step (a task that waits for the Mutex can
\* take none while another holds it)
NextLock == \E c \in Conns : Accept(c, LockDocs) \/ TaskEnd(c) \/ Step(c)

SpecLock == Init /\ [][NextLock]_vars /\ \A c \in Conns : WF_vars(Step(c))

(* ------------------------------ claims -------------------------------- *)
\* the form_response calls of connection c, as indices into its stack
Calls(c) == 1..Len(stack[c])

\* the task of connection c is over
Over(c) == pc[c] \in {"closed", "failed", "panicked"}

\* C1: a Batch request never fails as a whole. Stated for a batch whose payload
\* is an array: once its form_response call has its response, that response is
\* Ok, also when an element of the array is malformed.
C1_BatchNeverFails ==
    \A c \in Conns : \A i \in Calls(c) :
        LET f == stack[c][i]
        IN  (/\ f.req.command = "batch"
             /\ f.req.payload.some
             /\ f.req.payload.v.t = "arr"
             /\ f.response.some)
            => f.response.v.status = "ok"

\* C2: form_response returns a Response for every Request that decoding accepts:
\* no task is aborted while a form_response call is active
C2_DispatchNeverPanics ==
    \A c \in Conns : ~(pc[c] = "panicked" /\ stack[c] # <<>>)

\* the command kinds other than Batch
Timed == Commands \ {"batch"}

\* form_response calls of kind k whose metrics update is done and that have not
\* returned yet
Updated(k) ==
    UNION {{<<c, i>> : i \in {j \in Calls(c) :
                                /\ pc[c] = "dispatch"
                                /\ stack[c][j].req.command = k
                                /\ stack[c][j].at \in {"updated", "return"}}} :
           c \in Conns}

\* C3: with connections dispatched concurrently against the one Metrics, no
\* update is lost: once every task is over, count[k] is the number of
\* form_response calls of kind k all connections made, for every kind but Batch
C3_NoLostUpdate ==
    (\A c \in Conns : pc[c] = "idle" \/ Over(c))
        => \A k \in Timed : CountOrDefault(metrics, k) = calls[k]

\* C3 witness: two tasks are over and their two Ping calls are both counted
C3_Witness ==
    /\ \A c \in Conns : Over(c)
    /\ calls["ping"] >= 2
    /\ CountOrDefault(metrics, "ping") = calls["ping"]

\* C4: for every kind k but Batch, count[k] is the number of form_response calls
\* of kind k that returned, successful or failed, top-level or nested, plus those
\* that have made their update and are about to return (the update precedes the
\* return); a Batch call adds nothing to any map
C4_CountIsCalls ==
    /\ \A k \in Timed :
          CountOrDefault(metrics, k) = returned[k] + Cardinality(Updated(k))
    /\ ~metrics.command_counts["batch"].some
    /\ ~metrics.processing_time_min["batch"].some
    /\ ~metrics.processing_time_max["batch"].some
    /\ ~metrics.processing_time_avg["batch"].some

\* C4 witness: a batch of a failed and a successful Calculate has returned,
\* both are counted and the batch is not
C4_Witness ==
    /\ pc[1] = "send"
    /\ returned["batch"] = 1
    /\ returned["calculate"] = 2
    /\ CountOrDefault(metrics, "calculate") = 2
    /\ resp[1].v.status = "ok"
    /\ \E i \in 1..2 : resp[1].v.response.a[i].o.status = JStr("error")

\* C5: the Ok response of a Batch of n items holds an array of exactly n
\* entries, and entry i carries the request_id of item i of the payload
C5_BatchOrder ==
    \A c \in Conns : \A i \in Calls(c) :
        LET f == stack[c][i]
        IN  (/\ f.req.command = "batch"
             /\ f.response.some
             /\ f.response.v.status = "ok")
            => LET in == f.req.payload.v.a
                   out == f.response.v.response
               IN  /\ out.t = "arr"
                   /\ Len(out.a) = Len(in)
                   /\ \A n \in 1..Len(in) :
                         out.a[n].o.request_id = in[n].o.request_id

\* C5 witness: a batch of two items with different ids has its Ok response
C5_Witness ==
    \E c \in Conns : \E i \in Calls(c) :
        LET f == stack[c][i]
        IN  /\ f.req.command = "batch"
            /\ f.response.some
            /\ f.response.v.status = "ok"
            /\ Len(f.response.v.response.a) = 2
            /\ f.req.payload.v.a[1].o.request_id # f.req.payload.v.a[2].o.request_id

\* C6: every Response the dispatcher forms, Ok or Error, top-level or nested,
\* carries the request_id of the request it answers; an Error is never formed
\* with a null request_id
C6_ResponseCarriesId ==
    \A c \in Conns : \A i \in Calls(c) :
        LET f == stack[c][i]
        IN  f.response.some
            => IF f.response.v.status = "ok"
               THEN f.response.v.request_id = f.req.request_id
               ELSE f.response.v.request_id = Some(f.req.request_id)

\* C6 witness: a nested call has formed an Error response
C6_Witness ==
    \E c \in Conns :
        /\ Len(stack[c]) >= 2
        /\ Top(c).response.some
        /\ Top(c).response.v.status = "error"

\* the bytes of connection c decode into a Request
Decodable(c) == doc[c] # NotJson /\ DecodeRequest(doc[c]).ok

\* the bytes of connection c are no Request for either handler
Undecodable(c) ==
    doc[c] = NotJson \/ (~DecodeRequest(doc[c]).ok /\ ~MainDecode(doc[c]).ok)

\* C7: the caller receives exactly one response document for every request sent.
\* Stated for a task that ended without a read or write error on the stream.
C7_ExactlyOneResponse ==
    \A c \in Conns :
        (pc[c] \in {"closed", "panicked"} /\ Decodable(c)) => Len(written[c]) = 1

\* C8: bytes that are no Request are answered with an Error response whose
\* request_id is null, and no form_response call is made for them. Stated for
\* a task that ended without a read or write error on the stream.
C8_DecodeErrorAnswered ==
    \A c \in Conns :
        (pc[c] \in {"closed", "panicked"} /\ Undecodable(c))
            => /\ Len(written[c]) = 1
               /\ written[c][1].o.request_id = JNull
               /\ written[c][1].o.status = JStr("error")

\* the commands whose response depends on the request alone
Pure == {"ping", "echo", "calculate"}

\* C9: a failure of a batch item is local to it. Once the form_response call of
\* a batch with an array payload has its response, every item that is a Ping,
\* Echo or Calculate request has, at its position, the response it gets on its
\* own, whatever the other elements are.
C9_FailureIsLocal ==
    \A c \in Conns : \A i \in Calls(c) :
        LET f == stack[c][i]
        IN  (/\ f.req.command = "batch"
             /\ f.req.payload.some
             /\ f.req.payload.v.t = "arr"
             /\ f.response.some)
            => \A n \in 1..Len(f.req.payload.v.a) :
                 LET item == DecodeRequest(f.req.payload.v.a[n])
                 IN  (item.ok /\ item.v.command \in Pure)
                     => /\ f.response.v.status = "ok"
                        /\ Len(f.response.v.response.a) >= n
                        /\ f.response.v.response.a[n] =
                              ResponseJson(ToResponse(item.v, ProcessLeaf(item.v, "T1")))

\* C10: Calculate with divide and b = 0 gives an Error response with the id of
\* the request and the message "division by zero", for every a; with b # 0 it
\* gives Ok with a / b
C10_DivisionByZero ==
    \A c \in Conns : \A i \in Calls(c) :
        LET f == stack[c][i]
            p == f.req.payload.v.o
        IN  (/\ f.req.command = "calculate"
             /\ f.req.payload.some
             /\ DecodeCalculationPayload(f.req.payload.v).ok
             /\ p.operation = JStr("divide")
             /\ f.response.some)
            => IF p.b.n[1] = 0
               THEN /\ f.response.v.status = "error"
                    /\ f.response.v.request_id = Some(f.req.request_id)
                    /\ f.response.v.error = "division by zero"
               ELSE /\ f.response.v.status = "ok"
                    /\ f.response.v.request_id = f.req.request_id
                    /\ LET q == f.response.v.response.o.result.n
                       IN  q[1] * p.b.n[1] * p.a.n[2] = p.a.n[1] * q[2] * p.b.n[2]

\* C10 witness: a division of a non-zero a by zero has been answered
C10_Witness ==
    \E c \in Conns : \E i \in Calls(c) :
        LET f == stack[c][i]
        IN  /\ f.req.command = "calculate"
            /\ f.req.payload = Some(CalcDoc("divide", 3, 0))
            /\ f.response.some
            /\ f.response.v.status = "error"

\* the payload of a Calculate request is missing or null, is no object, names no
\* known operation, or lacks operand a or b
InvalidCalculationPayload(p) ==
    \/ ~p.some
    \/ p.v = JNull
    \/ p.v.t # "obj"
    \/ /\ p.v.t = "obj"
       /\ \/ "operation" \notin DOMAIN p.v.o
          \/ "a" \notin DOMAIN p.v.o
          \/ "b" \notin DOMAIN p.v.o
          \/ p.v.o.operation \notin {JStr(op) : op \in Operations}

C12_StructuralErrorsRejected ==
    \A c \in Conns : \A i \in Calls(c) :
        LET f == stack[c][i]
        IN  /\ f.req.command \in Commands
            /\ f.req.command = "calculate"
                  => /\ f.req.payload.some
                     /\ DecodeCalculationPayload(f.req.payload.v).ok
            /\ f.req.command = "batch"
                  => /\ f.req.payload.some
                     /\ f.req.payload.v.t = "arr"

\* the document holds a request_id field that is a well-formed UUID
ReadableId(j) ==
    /\ j.t = "obj"
    /\ "request_id" \in DOMAIN j.o
    /\ j.o.request_id.t = "str"
    /\ j.o.request_id.s \in Uuids

\* C13 as stated: whenever the input holds a readable, well-formed request_id,
\* the response written for it carries that id, also when the rest of the
\* envelope is invalid
C13_ReadableIdIsCarried ==
    \A c \in Conns :
        (ReadableId(doc[c]) /\ written[c] # <<>>)
            => written[c][1].o.request_id = doc[c].o.request_id

\* C13 amended: a response has a null request_id only when the input did not
\* decode into a Request, and the response to an input that decodes into a
\* Request carries the request_id of that Request
C13_NullIdOnlyIfNotDecoded ==
    \A c \in Conns :
        written[c] # <<>>
            => /\ written[c][1].o.request_id = JNull => ~Decodable(c)
               /\ Decodable(c) => written[c][1].o.request_id = doc[c].o.request_id

\* C13 witness: an input with a readable request_id and an invalid command has
\* been answered with a null request_id
C13_Witness ==
    \E c \in Conns :
        /\ ReadableId(doc[c])
        /\ written[c] # <<>>
        /\ written[c][1].o.request_id = JNull
        /\ written[c][1].o.status = JStr("error")

\* C14: in every reachable Metrics state, for every kind k that has been
\* recorded, min[k] <= avg[k] <= max[k]
C14_MinAvgMax ==
    \A k \in Commands :
        metrics.command_counts[k].some
            => /\ RLe(metrics.processing_time_min[k].v, metrics.processing_time_avg[k].v)
               /\ RLe(metrics.processing_time_avg[k].v, metrics.processing_time_max[k].v)

\* the JSON value is a Batch request whose payload is an array
IsBatchDoc(j) ==
    /\ DecodeRequest(j).ok
    /\ DecodeRequest(j).v.command = "batch"
    /\ DecodeRequest(j).v.payload.some
    /\ DecodeRequest(j).v.payload.v.t = "arr"

\* C15: a Batch item that is itself a Batch appears in the outer result as
\* exactly one Ok entry, at its own position, whose response is the array of the
\* entries of the nested batch, one per nested item: nothing is spliced into
\* the outer array
C15_NestedBatchIsOneEntry ==
    \A c \in Conns : \A i \in Calls(c) :
        LET f == stack[c][i]
        IN  (/\ f.req.command = "batch"
             /\ f.req.payload.some
             /\ f.req.payload.v.t = "arr"
             /\ f.response.some)
            => \A n \in 1..Len(f.req.payload.v.a) :
                 LET item == f.req.payload.v.a[n]
                 IN  IsBatchDoc(item)
                     => /\ f.response.v.status = "ok"
                        /\ Len(f.response.v.response.a) = Len(f.req.payload.v.a)
                        /\ LET entry == f.response.v.response.a[n].o
                           IN  /\ entry.status = JStr("ok")
                               /\ entry.request_id = item.o.request_id
                               /\ entry.response.t = "arr"
                               /\ Len(entry.response.a) = Len(item.o.payload.a)

\* C16: Echo with payload v returns Ok whose response is v unmodified, for every
\* JSON value v, null, the empty object and the empty array included. Stated
\* for every form_response call of an Echo with a payload, and for every
\* response written to an Echo document that holds a payload field
C16_EchoReturnsPayload ==
    \A c \in Conns :
        /\ \A i \in Calls(c) :
              LET f == stack[c][i]
              IN  (f.req.command = "echo" /\ f.req.payload.some /\ f.at # "enter")
                  => /\ f.response.some
                     /\ f.response.v.status = "ok"
                     /\ f.response.v.request_id = f.req.request_id
                     /\ f.response.v.response = f.req.payload.v
        /\ (/\ Decodable(c)
            /\ doc[c].o.command = JStr("echo")
            /\ "payload" \in DOMAIN doc[c].o
            /\ written[c] # <<>>)
               => /\ written[c][1].o.status = JStr("ok")
                  /\ written[c][1].o.request_id = doc[c].o.request_id
                  /\ written[c][1].o.response = doc[c].o.payload

\* C16 witness: an Echo whose payload is null has been answered with Ok
C16_Witness ==
    \E c \in Conns :
        /\ Decodable(c)
        /\ doc[c].o.command = JStr("echo")
        /\ "payload" \in DOMAIN doc[c].o
        /\ doc[c].o.payload = JNull
        /\ written[c] # <<>>
        /\ written[c][1].o.status = JStr("ok")

\* C17: dispatching the same Ping, Echo or Calculate request twice yields the
\* same response, whatever the Metrics hold and whatever was dispatched before
\* or is dispatched concurrently: any two form_response calls of equal requests
\* have equal responses, equal items of one batch have equal entries, and any
\* two connections that sent the same such request were written the same
\* document
C17_SameRequestSameResponse ==
    \A c1, c2 \in Conns :
        /\ \A i \in Calls(c1) : \A j \in Calls(c2) :
              LET f == stack[c1][i]
                  g == stack[c2][j]
              IN  (/\ f.req = g.req
                   /\ f.req.command \in Pure
                   /\ f.response.some
                   /\ g.response.some)
                  => f.response = g.response
        /\ \A i \in Calls(c1) :
              LET f == stack[c1][i]
              IN  (f.req.command = "batch" /\ f.at = "loop")
                  => \A m, n \in 1..Len(f.result) :
                        LET item == DecodeRequest(f.req.payload.v.a[m])
                        IN  (/\ f.req.payload.v.a[m] = f.req.payload.v.a[n]
                             /\ item.v.command \in Pure)
                            => f.result[m] = f.result[n]
        /\ (/\ doc[c1] = doc[c2]
            /\ Decodable(c1)
            /\ DecodeRequest(doc[c1]).v.command \in Pure
            /\ written[c1] # <<>>
            /\ written[c2] # <<>>)
               => written[c1] = written[c2]

\* C17 witness: two connections sent the same Ping, both were answered, and the
\* Metrics differed between the two dispatches (both calls are counted)
C17_Witness ==
    /\ doc[1] = doc[2]
    /\ Decodable(1)
    /\ DecodeRequest(doc[1]).v.command = "ping"
    /\ written[1] # <<>>
    /\ written[2] # <<>>
    /\ CountOrDefault(metrics, "ping") = 2

\* C18: for every request_id, Ping is answered with an Ok response: status ok,
\* that request_id and the response value "pong", as the response of the
\* form_response call and as the document written to the client
C18_PingPong ==
    \A c \in Conns :
        /\ \A i \in Calls(c) :
              LET f == stack[c][i]
              IN  (f.req.command = "ping" /\ f.at # "enter")
                  => f.response = Some(OkResponse(f.req.request_id, JStr("pong")))
        /\ (/\ Decodable(c)
            /\ doc[c].o.command = JStr("ping")
            /\ written[c] # <<>>)
               => written[c] = <<JObj([request_id |-> doc[c].o.request_id,
                                       status |-> JStr("ok"),
                                       response |-> JStr("pong")])>>

\* C18 witness: the Ping with request_id u2 has been answered with pong
C18_Witness ==
    \E c \in Conns :
        /\ doc[c] = ReqDoc("u2", "ping", None)
        /\ written[c] # <<>>
        /\ written[c][1].o.request_id = JStr("u2")
        /\ written[c][1].o.response = JStr("pong")

\* the Metrics hold an entry for kind k
Recorded(k) ==
    /\ metrics.command_counts[k].some
    /\ metrics.processing_time_min[k].some
    /\ metrics.processing_time_max[k].some
    /\ metrics.processing_time_avg[k].some

\* C19 as stated: every item inside a Batch, an item that is itself a batch
\* included, has its own metrics update made when its call returns
C19_EveryItemTimed ==
    \A c \in Conns : \A i \in Calls(c) :
        LET f == stack[c][i]
        IN  (i >= 2 /\ f.at = "return") => Recorded(f.req.command)

\* C19 amended: every dispatched batch item that is not itself a Batch is timed
\* and has its own update made when its call returns (its kind is recorded,
\* counted beyond the count the call read, and the duration of the call lies
\* within min and max); a Batch call, enclosing or itself an item, is never
\* timed and never recorded
C19_LeafItemsTimed ==
    /\ ~metrics.command_counts["batch"].some
    /\ ~metrics.processing_time_min["batch"].some
    /\ ~metrics.processing_time_max["batch"].some
    /\ ~metrics.processing_time_avg["batch"].some
    /\ \A c \in Conns : \A i \in Calls(c) :
          LET f == stack[c][i]
              k == f.req.command
          IN  IF k = "batch"
              THEN f.at \in {"enter", "loop", "return"} /\ f.dur = RZero
              ELSE (i >= 2 /\ f.at = "return")
                   => /\ Recorded(k)
                      /\ metrics.command_counts[k].v > f.old
                      /\ RLe(metrics.processing_time_min[k].v, f.dur)
                      /\ RLe(f.dur, metrics.processing_time_max[k].v)

\* C19 witness: a batch that is an item of a batch returns after its own item
\* has been timed and recorded
C19_Witness ==
    \E c \in Conns :
        /\ Len(stack[c]) >= 2
        /\ Top(c).req.command = "batch"
        /\ Top(c).at = "return"
        /\ Top(c).result # <<>>
        /\ \E k \in Timed : Recorded(k)

\* in every batch call that runs its loop, each item begun earlier has its
\* response on result, but for the one item whose call is active
OneItemAtATime ==
    \A c \in Conns : \A i \in Calls(c) :
        LET f == stack[c][i]
            begun == Len(f.req.payload.v.a) - Len(f.items)
        IN  (f.req.command = "batch" /\ f.at = "loop")
            => Len(f.result) + (IF i < Len(stack[c]) THEN 1 ELSE 0) = begun

\* a step that begins an item finds the responses of all items begun before
\* it; a step that ends an item hands over its full response, after its
\* metrics update and, for a nested batch, after its whole loop
ItemBoundary ==
    \A c \in Conns :
        LET n == Len(stack[c])
        IN  /\ (n >= 1 /\ Len(stack'[c]) = n + 1)
                  => /\ Top(c).at = "loop"
                     /\ Len(Top(c).result) + Len(Top(c).items)
                           = Len(Top(c).req.payload.v.a)
                     /\ stack'[c][n + 1] = Frame(Head(Top(c).items))
            /\ (n >= 2 /\ Len(stack'[c]) = n - 1)
                  => /\ Top(c).response.some
                     /\ stack'[c][n - 1].result
                           = Append(stack[c][n - 1].result, Top(c).response.v)
                     /\ IF Top(c).req.command = "batch"
                        THEN Top(c).items = <<>>
                        ELSE /\ Recorded(Top(c).req.command)
                             /\ metrics.command_counts[Top(c).req.command].v > Top(c).old

\* C20: batch processing is sequential: within one batch tree, item i+1 is not
\* begun before the full response of item i, its nested expansion and its
\* metrics update included, has been produced
C20_BatchSequential == []OneItemAtATime /\ [][ItemBoundary]_vars

\* C20 witness: the second item of a batch is begun with the response of the
\* first on result and the first, a Ping, recorded in the Metrics
C20_Witness ==
    \E c \in Conns :
        /\ pc[c] = "dispatch"
        /\ Len(stack[c]) = 2
        /\ Len(stack[c][1].result) = 1
        /\ stack[c][1].result[1].status = "ok"
        /\ Top(c).at = "enter"
        /\ Recorded("ping")

\* the calls of kind k whose update of the Metrics is complete
Applied(k) ==
    UNION {{<<c, i>> : i \in {j \in Calls(c) :
                                /\ stack[c][j].req.command = k
                                /\ stack[c][j].at \in {"updated", "return"}}} :
           c \in Conns}

\* the duration recorded by the n-th update of kind k
DurationOf(k, n) ==
    LET a == CHOOSE x \in Applied(k) : stack[x[1]][x[2]].old = n - 1
    IN  stack[a[1]][a[2]].dur

\* minimum, maximum and mean, by the formula of Metrics::update, of the first n
\* durations recorded for kind k
RECURSIVE MinOf(_, _), MaxOf(_, _), ClosedAvg(_, _)
MinOf(k, n) ==
    IF n = 1 THEN DurationOf(k, 1) ELSE RMin(MinOf(k, n - 1), DurationOf(k, n))

MaxOf(k, n) ==
    IF n = 1 THEN DurationOf(k, 1) ELSE RMax(MaxOf(k, n - 1), DurationOf(k, n))

ClosedAvg(k, n) ==
    IF n = 1 THEN DurationOf(k, 1)
    ELSE FDiv(FAdd(FMul(ClosedAvg(k, n - 1), FromInt(n - 1)), DurationOf(k, n)),
              FromInt(n))

\* C21: no metrics update is observed half-applied. Whenever the Mutex is free,
\* the four maps have the same keys, every key has a count of at least one, and
\* count, min, max and avg of a kind are those of the same durations: the ones
\* of the calls of that kind whose update is complete, in the order of their
\* updates. Inside the critical section, once update has run, the count is
\* the count the call found plus its own update.
C21_NoHalfAppliedUpdate ==
    /\ lock = 0 =>
          \A k \in Commands :
             LET n == Cardinality(Applied(k))
             IN  IF n = 0
                 THEN /\ ~metrics.command_counts[k].some
                      /\ ~metrics.processing_time_min[k].some
                      /\ ~metrics.processing_time_max[k].some
                      /\ ~metrics.processing_time_avg[k].some
                 ELSE /\ Recorded(k)
                      /\ metrics.command_counts[k].v = n
                      /\ \A m \in 1..n :
                            Cardinality({x \in Applied(k) :
                                            stack[x[1]][x[2]].old = m - 1}) = 1
                      /\ metrics.processing_time_min[k].v = MinOf(k, n)
                      /\ metrics.processing_time_max[k].v = MaxOf(k, n)
                      /\ metrics.processing_time_avg[k].v = ClosedAvg(k, n)
    /\ \A c \in Conns : \A i \in Calls(c) :
          stack[c][i].at = "updated"
             => metrics.command_counts[stack[c][i].req.command]
                   = Some(stack[c][i].old + 1)

\* C21 witness: the Mutex is free after two tasks have each recorded a call of
\* the same kind, with different durations, while a third call waits for it
C21_Witness ==
    /\ lock = 0
    /\ \E x, y \in Applied("ping") :
          /\ x[1] # y[1]
          /\ stack[x[1]][x[2]].dur # stack[y[1]][y[2]].dur
    /\ \E c \in Conns : stack[c] # <<>> /\ Top(c).at = "metrics"

\* the first n durations recorded for kind k, their exact sum and exact mean
Durations(k, n) == {DurationOf(k, m) : m \in 1..n}

RECURSIVE SumOf(_, _)
SumOf(k, n) == IF n = 0 THEN RZero ELSE RAdd(SumOf(k, n - 1), DurationOf(k, n))

MeanOf(k, n) == RDiv(SumOf(k, n), FromInt(n))

\* the mean by the incremental form avg + (d - avg) / count, in f64
RECURSIVE IncrementalAvg(_, _)
IncrementalAvg(k, n) ==
    IF n = 1 THEN DurationOf(k, 1)
    ELSE LET avg == IncrementalAvg(k, n - 1)
         IN  FAdd(avg, FDiv(FSub(DurationOf(k, n), avg), FromInt(n)))

\* x is the least (greatest) of the first n durations of kind k
IsMinimum(x, k, n) == x \in Durations(k, n) /\ \A d \in Durations(k, n) : RLe(x, d)
IsMaximum(x, k, n) == x \in Durations(k, n) /\ \A d \in Durations(k, n) : RLe(d, x)

\* x differs from the exact mean of the first n durations of kind k by no more
\* than the rounding of the n - 1 updates can add up to: 4 * (n - 1) units of
\* roundoff (2 ^ -MantissaBits) of the greatest duration
NearMean(x, k, n) ==
    LET diff == RSub(x, MeanOf(k, n))
        dist == IF diff[1] < 0 THEN RNeg(diff) ELSE diff
    IN  RLe(RMul(dist, FromInt(Pow2(MantissaBits))),
            RMul(FromInt(4 * (n - 1)), MaxOf(k, n)))

\* C22 as stated: after the updates for d1..dn, min is the minimum, max the
\* maximum and avg the arithmetic mean of d1..dn, and the closed form and the
\* incremental form of the mean give the same result
C22_ExactMean ==
    lock = 0 =>
       \A k \in Commands :
          LET n == Cardinality(Applied(k))
          IN  n >= 1
              => /\ IsMinimum(metrics.processing_time_min[k].v, k, n)
                 /\ IsMaximum(metrics.processing_time_max[k].v, k, n)
                 /\ metrics.processing_time_avg[k].v = MeanOf(k, n)
                 /\ ClosedAvg(k, n) = IncrementalAvg(k, n)

\* C22 amended: min is the minimum and max the maximum of d1..dn exactly; avg
\* is the closed form evaluated in f64, update by update, and it, like the
\* incremental form, equals the arithmetic mean up to rounding only
C22_MeanUpToRounding ==
    lock = 0 =>
       \A k \in Commands :
          LET n == Cardinality(Applied(k))
          IN  n >= 1
              => /\ IsMinimum(metrics.processing_time_min[k].v, k, n)
                 /\ IsMaximum(metrics.processing_time_max[k].v, k, n)
                 /\ metrics.processing_time_avg[k].v = ClosedAvg(k, n)
                 /\ NearMean(metrics.processing_time_avg[k].v, k, n)
                 /\ NearMean(IncrementalAvg(k, n), k, n)

\* C22 witness: three durations, not all equal, are recorded for one kind and
\* the mean held is not their exact mean
C22_Witness ==
    /\ lock = 0
    /\ Cardinality(Applied("ping")) = 3
    /\ metrics.processing_time_min["ping"] # metrics.processing_time_max["ping"]
    /\ metrics.processing_time_avg["ping"].v # MeanOf("ping", 3)

\* the request nodes of the document j: j itself if it is a Request, and, if it
\* is a Batch with an array payload, the request nodes of the elements
RECURSIVE RequestNodes(_), ForestNodes(_)
RequestNodes(j) ==
    LET r == DecodeRequest(j)
    IN  IF ~r.ok THEN 0
        ELSE IF r.v.command = "batch" /\ r.v.payload.some /\ r.v.payload.v.t = "arr"
             THEN 1 + ForestNodes(r.v.payload.v.a)
        ELSE 1

ForestNodes(a) ==
    IF a = <<>> THEN 0 ELSE RequestNodes(Head(a)) + ForestNodes(Tail(a))

\* the form_response calls begun and those that returned, over all commands
CallsBegun ==
    calls["ping"] + calls["echo"] + calls["time"] + calls["calculate"] + calls["batch"]

CallsReturned ==
    returned["ping"] + returned["echo"] + returned["time"] + returned["calculate"]
        + returned["batch"]

\* the dispatch of the document of connection c is at its end: the outermost
\* form_response call has its response, or the task was aborted within it
DispatchEnded(c) ==
    /\ stack[c] # <<>>
    /\ \/ pc[c] = "panicked"
       \/ Len(stack[c]) = 1 /\ stack[c][1].at = "return"

\* every batch of the document, at any depth, has an array payload whose
\* elements are all Requests
RECURSIVE WellFormedTree(_)
WellFormedTree(j) ==
    LET r == DecodeRequest(j)
    IN  /\ r.ok
        /\ r.v.command = "batch" =>
              /\ r.v.payload.some
              /\ r.v.payload.v.t = "arr"
              /\ \A i \in DOMAIN r.v.payload.v.a : WellFormedTree(r.v.payload.v.a[i])

\* C23: dispatch executes each request node exactly once. When the dispatch of
\* a document is at its end, one form_response call was begun for every request
\* node of the document, no node was run twice and none was skipped.
C23_EachNodeOnce ==
    DispatchEnded(1) => CallsBegun = RequestNodes(doc[1])

\* C23 restricted to documents in which every batch has an array of Requests
\* as payload: the calls begun are the request nodes, and all but the
\* outermost have returned
C23_EachNodeOnceIfWellFormed ==
    (DispatchEnded(1) /\ WellFormedTree(doc[1])) =>
        /\ pc[1] # "panicked"
        /\ CallsBegun = RequestNodes(doc[1])
        /\ CallsReturned = CallsBegun - 1

\* the positions of a form_response call between lock() and the drop of the guard
Guarded == {"locked", "counted", "minned", "maxed", "updated"}

\* the task of connection c has asked for the Mutex and holds it not yet
WantsLock(c) == Running(c) /\ Top(c).at = "metrics"

\* the Mutex is held only by the innermost form_response call of a task, a call
\* for a command other than Batch whose response is computed; no call below it
\* and no call that has returned or is about to return holds it
LockOnlyAroundUpdate ==
    /\ lock \in Conns \cup {0}
    /\ \A c \in Conns :
          /\ lock = c =>
                /\ Running(c)
                /\ Top(c).at \in Guarded
                /\ Top(c).response.some
                /\ Top(c).req.command # "batch"
          /\ \A i \in Calls(c) :
                stack[c][i].at \in Guarded => (i = Len(stack[c]) /\ lock = c)

FailingBatch(f) ==
    /\ f.req.command = "batch"
    /\ f.req.payload.some
    /\ f.req.payload.v.t = "arr"
    /\ \E i \in DOMAIN f.req.payload.v.a : ~DecodeRequest(f.req.payload.v.a[i]).ok

\* a call for such a batch has no item to run and none that ran: it is the
\* innermost call of its task, its list of items and its result are empty, and
\* its response, once formed, is Error
NoItemOfFailingBatch ==
    \A c \in Conns : \A i \in Calls(c) :
        LET f == stack[c][i]
        IN  FailingBatch(f) =>
              /\ i = Len(stack[c])
              /\ f.at \in {"enter", "return"}
              /\ f.items = <<>>
              /\ f.result = <<>>
              /\ f.response.some => f.response.v.status = "error"

\* while the call for such a batch is the innermost one of the task, no step
\* updates the Metrics or takes the Mutex, and no call for another command begins
FailingBatchStep ==
    (stack[1] # <<>> /\ FailingBatch(Top(1))) =>
        /\ metrics' = metrics
        /\ lock' = lock
        /\ \A k \in Commands \ {"batch"} : calls'[k] = calls[k]
        /\ calls'["batch"] <= calls["batch"] + 1

\* C25: batch payload decoding is all-or-nothing. The whole payload is decoded
\* before any item runs: when an element of the payload fails to decode, no
\* item of that batch is dispatched, also none that precedes the failing
\* element, and no metrics update is made for any of its items.
C25_BatchDecodeAllOrNothing ==
    []NoItemOfFailingBatch /\ [][FailingBatchStep]_vars

\* C25 witness: a batch whose payload holds a well-formed request followed by an
\* element that is no Request has returned Error, and no command other than
\* that batch was called
C25_Witness ==
    /\ stack[1] # <<>>
    /\ FailingBatch(Top(1))
    /\ Top(1).at = "return"
    /\ Len(Top(1).req.payload.v.a) = 2
    /\ DecodeRequest(Top(1).req.payload.v.a[1]).ok
    /\ ~DecodeRequest(Top(1).req.payload.v.a[2]).ok
    /\ CallsBegun = 1
    /\ metrics = MetricsDefault

====
